---- MODULE Spec2Model ----
(***************************************************************************)
(* Critical-radius search of aaswenson/fuel_fraction: cooled_cyl.py (the   *)
(* search loop and its per-evaluation artifacts), mcnp_inputs.py (the      *)
(* homogenization and the material card) and material_data.py (the         *)
(* material table and the enrichment).                                     *)
(*                                                                         *)
(* Units.  Volume fractions and the enrichment are integers in hundredths, *)
(* radii in 1e-6, keff in thousandths, md.rhos in 1e-2, coolant densities  *)
(* in 1e-5, table mass fractions in 1e-9, partial densities in 1e-7, the   *)
(* smeared density in 1e-5.  Products that pass 2^31 are exact naturals    *)
(* held as little-endian sequences of base-10^4 limbs.                     *)
(***************************************************************************)
EXTENDS Integers, Sequences, FiniteSets, TLC

VARIABLES
    cfg,        \* per search: the arguments of frac_iterate
    pc,         \* per search: where its control is
    radius,     \* per search: the radius of the evaluation under way
    nev,        \* per search: evaluations the minimizer has started
    keff,       \* per search: keff of calc_keff_error, << >> while unbound
    errs,       \* per search: the errors returned to the minimizer, in order
    exc,        \* per search: the exception that ended it
    rmi,        \* per search: which os.remove of calc_keff_error is next
    fs,         \* the working directory: file name -> file
    resfiles,   \* the result logs: (frac, coolant, fuel) -> records appended
    ndeck,      \* per search: decks written so far
    nsolver,    \* per search: solver processes spawned so far
    arg,        \* the input of a function applied on its own
    ret,        \* its result
    step        \* "in" before it is applied, "out" after

vars == <<cfg, pc, radius, nev, keff, errs, exc, rmi, fs, resfiles, ndeck, nsolver,
          arg, ret, step>>

searchVars == <<cfg, pc, radius, nev, keff, errs, exc, rmi, fs, resfiles, ndeck, nsolver>>

pureVars == <<arg, ret, step>>

None == "None"

(***************************************************************************)
(* material_data.py                                                        *)
(***************************************************************************)
MdRhos == [UO2 |-> 1097, W |-> 1930, UN |-> 1130]

Mats == [UO2 |-> (8016 :> 152040000 @@ 92000 :> 847960000),
         UN  |-> (92000 :> 944410000 @@ 7015 :> 55590000),
         CO2 |-> (6000 :> 272910000 @@ 8016 :> 727090000),
         W   |-> (74180 :> 1174600 @@ 74182 :> 262270000 @@ 74183 :> 142410000
                  @@ 74184 :> 306580000 @@ 74186 :> 287570000),
         H2O |-> (1001 :> 111870000 @@ 1002 :> 25713 @@ 8016 :> 888110000)]

\* rhos of frac_iterate: the coolant densities handed to find_radius
CoolRhos == [CO2 |-> 23389, H2O |-> 12348]

\* the enrichment write_inp hands to homog_core
Enrich == 93

\* enrich_fuel with a molar mass bound for every fuel kind
EnrichFuelExcAnyKind(fuel) ==
    IF fuel \notin DOMAIN Mats THEN "KeyError" ELSE "none"

\* the exception enrich_fuel ends with, "none" when it returns
EnrichFuelExc(fuel) ==
    IF fuel \notin DOMAIN Mats THEN "KeyError"
    ELSE IF fuel \notin {"UN", "UO2"} THEN "UnboundLocalError"
    ELSE "none"

(***************************************************************************)
(* Exact arithmetic on naturals past 2^31: little-endian limbs, base 10^4, *)
(* no leading zero limb (zero is the empty sequence).  It carries the      *)
(* products and sums of homog_core and merge_comps.                        *)
(***************************************************************************)
Base == 10000

RECURSIVE BigOf(_)
BigOf(n) == IF n = 0 THEN <<>> ELSE <<n % Base>> \o BigOf(n \div Base)

RECURSIVE BigAddC(_, _, _)
BigAddC(a, b, c) ==
    IF a = <<>> /\ b = <<>> THEN BigOf(c)
    ELSE LET x == (IF a = <<>> THEN 0 ELSE Head(a))
                  + (IF b = <<>> THEN 0 ELSE Head(b)) + c
         IN  <<x % Base>> \o BigAddC(IF a = <<>> THEN <<>> ELSE Tail(a),
                                     IF b = <<>> THEN <<>> ELSE Tail(b),
                                     x \div Base)

BigAdd(a, b) == BigAddC(a, b, 0)

RECURSIVE BigMulLimbC(_, _, _)
BigMulLimbC(a, d, c) ==
    IF a = <<>> THEN BigOf(c)
    ELSE LET x == Head(a) * d + c
         IN  <<x % Base>> \o BigMulLimbC(Tail(a), d, x \div Base)

RECURSIVE BigMul(_, _)
BigMul(a, b) ==
    IF a = <<>> \/ b = <<>> THEN <<>>
    ELSE LET low  == IF Head(b) = 0 THEN <<>> ELSE BigMulLimbC(a, Head(b), 0)
             high == BigMul(a, Tail(b))
         IN  BigAdd(low, IF high = <<>> THEN <<>> ELSE <<0>> \o high)

RECURSIVE BigLeqFrom(_, _, _)
BigLeqFrom(a, b, i) ==
    IF i = 0 THEN TRUE
    ELSE IF a[i] # b[i] THEN a[i] < b[i]
    ELSE BigLeqFrom(a, b, i - 1)

BigLeq(a, b) ==
    \/ Len(a) < Len(b)
    \/ Len(a) = Len(b) /\ BigLeqFrom(a, b, Len(a))

\* fuel_comp of enrich_fuel, mass fractions in 1e-11: isotope 92000 is split
\* into 92235 and 92238 by enrich and (1 - enrich)
EnrichFuel(enrich, fuel) ==
    LET m   == Mats[fuel]
        iso == (DOMAIN m \ {92000})
               \cup (IF 92000 \in DOMAIN m THEN {92235, 92238} ELSE {})
    IN  [i \in iso |->
            IF i = 92235 /\ 92000 \in DOMAIN m
              THEN BigMul(BigOf(m[92000]), BigOf(enrich))
            ELSE IF i = 92238 /\ 92000 \in DOMAIN m
              THEN BigMul(BigOf(m[92000]), BigOf(100 - enrich))
            ELSE BigMul(BigOf(m[i]), BigOf(100))]

(***************************************************************************)
(* mcnp_inputs.py                                                          *)
(***************************************************************************)
\* merge_comps: the union of two compositions, like isotopes summed
MergeComps(compA, compB) ==
    [i \in DOMAIN compA \cup DOMAIN compB |->
        IF i \in DOMAIN compA /\ i \in DOMAIN compB THEN BigAdd(compA[i], compB[i])
        ELSE IF i \in DOMAIN compB THEN compB[i]
        ELSE compA[i]]

\* the volume-weighted densities of homog_core, in 1e-7
PartialDensities(vfrac, fuel, matr, rho_cool) ==
    LET matr_frac == IF matr # None THEN 60 ELSE 100
    IN  [fuel |-> vfrac * MdRhos[fuel] * matr_frac * 10,
         cool |-> (100 - vfrac) * rho_cool,
         matr |-> IF matr # None THEN vfrac * MdRhos[matr] * (100 - matr_frac) * 10
                  ELSE 0]

\* round(x, 5) of a density x given in 1e-7, in 1e-5.  A decimal tie is
\* settled by the binary value of the float, which may lie on either side:
\* both neighbours are results.
Round5(x) ==
    LET q == x \div 100
        r == x % 100
    IN  IF r < 50 THEN {q} ELSE IF r > 50 THEN {q + 1} ELSE {q, q + 1}

\* self.rho of homog_core: the smeared densities round() can give
SmearedRho(vfrac, fuel, matr, rho_cool) ==
    LET p == PartialDensities(vfrac, fuel, matr, rho_cool)
    IN  Round5(p.fuel + p.cool + p.matr)

\* the exception homog_core ends with, "none" when it returns
HomogExc(vfrac, fuel, cool, matr, rho_cool, rho) ==
    IF matr # None /\ matr \notin DOMAIN MdRhos THEN "KeyError"
    ELSE IF fuel \notin DOMAIN MdRhos THEN "KeyError"
    ELSE IF EnrichFuelExc(fuel) # "none" THEN EnrichFuelExc(fuel)
    ELSE IF rho = 0 THEN "ZeroDivisionError"
    ELSE IF cool \notin DOMAIN Mats THEN "KeyError"
    ELSE IF matr # None /\ matr \notin DOMAIN Mats THEN "KeyError"
    ELSE "none"

\* one entry of components: comp * mfrac, to be read over self.rho
Normed(comp, mfrac) == [i \in DOMAIN comp |-> BigMul(comp[i], BigOf(mfrac))]

\* homog_comp of homog_core for 0 <= vfrac <= 1: each mass fraction is the
\* value here (in 1e-18) over rho (in 1e-5)
HomogCore(vfrac, fuel, cool, matr, enrich, rho_cool) ==
    LET p    == PartialDensities(vfrac, fuel, matr, rho_cool)
        nf   == Normed(EnrichFuel(enrich, fuel), p.fuel)
        nc   == Normed([i \in DOMAIN Mats[cool] |->
                           BigMul(BigOf(Mats[cool][i]), BigOf(100))], p.cool)
        nm   == IF matr # None
                THEN Normed([i \in DOMAIN Mats[matr] |->
                           BigMul(BigOf(Mats[matr][i]), BigOf(100))], p.matr)
                ELSE << >>
        fc   == MergeComps(MergeComps(<< >>, nf), nc)
    IN  IF matr # None THEN MergeComps(fc, nm) ELSE fc

RECURSIVE SortedSeq(_)
\* sorted(homog_comp.keys())
SortedSeq(S) ==
    IF S = {} THEN << >>
    ELSE LET m == CHOOSE x \in S : \A y \in S : x <= y
         IN  <<m>> \o SortedSeq(S \ {m})

NL == [kind |-> "nl", iso |-> 0, val |-> << >>]

Card == [kind |-> "m1", iso |-> 0, val |-> << >>]

\* "     {0} -{1:.5e}".format(isotope, homog_comp[isotope])
Entry(isotope, value) == [kind |-> "entry", iso |-> isotope, val |-> value]

RECURSIVE MatLoop(_, _, _, _)
\* the loop of write_mat_string from position idx (0-based, as enumerate)
MatLoop(homog_comp, keys, idx, str) ==
    IF idx >= Len(keys) THEN str
    ELSE LET isotope == keys[idx + 1]
         IN  IF homog_comp[isotope] = << >>
             THEN MatLoop(homog_comp, keys, idx + 1, str)
             ELSE MatLoop(homog_comp, keys, idx + 1,
                          str \o <<Entry(isotope, homog_comp[isotope])>>
                              \o (IF idx < Len(keys) - 1 THEN <<NL>> ELSE << >>))

\* fuel_string of write_mat_string, as the sequence of its pieces
WriteMatString(homog_comp) ==
    MatLoop(homog_comp, SortedSeq(DOMAIN homog_comp), 0, <<Card, NL>>)

(***************************************************************************)
(* cooled_cyl.py: parse_output                                             *)
(*                                                                         *)
(* A line is the sequence of its words and blanks (" " one blank character)*)
(* and a file the sequence of its lines.  Words never touch: between two   *)
(* words there is at least one blank.                                      *)
(***************************************************************************)
Blank == " "

\* words that end in "final", words that start with "result"
EndsFinal == {"final", "semifinal"}

StartsResult == {"result", "results"}

\* 'final result' in line
HasMarker(line) ==
    \E i \in 1..(Len(line) - 2) :
        /\ line[i] \in EndsFinal
        /\ line[i + 1] = Blank
        /\ line[i + 2] \in StartsResult

\* line.split()
Split(line) == SelectSeq(line, LAMBDA w : w # Blank)

\* float(token) for the numerals of the model, keff in thousandths
Numerals == ("0.98" :> 980 @@ "1.00" :> 1000 @@ "1.02" :> 1020 @@ "0.003" :> 3)

\* res_idx: the 1-based indices of the lines with the marker, ascending
ResIdx(lines) == SelectSeq([i \in 1..Len(lines) |-> i], LAMBDA i : HasMarker(lines[i]))

\* parse_output reading res_idx[0]
PickFirstIdx(res_idx) == res_idx[1]

\* which entry of res_idx parse_output reads: res_idx[-1]
PickIdx(res_idx) == res_idx[Len(res_idx)]

\* parse_output taking keff = 0 when no line has the marker
ParseOutputDefault(lines) ==
    LET res_idx == ResIdx(lines)
    IN  IF res_idx = << >> THEN [exc |-> "none", keff |-> <<0>>]
        ELSE LET toks == Split(lines[PickIdx(res_idx)])
             IN  IF Len(toks) < 3 THEN [exc |-> "IndexError", keff |-> << >>]
                 ELSE IF toks[3] \notin DOMAIN Numerals
                   THEN [exc |-> "ValueError", keff |-> << >>]
                 ELSE [exc |-> "none", keff |-> <<Numerals[toks[3]]>>]

\* parse_output on the lines of the output file
ParseOutput(lines) ==
    LET res_idx == ResIdx(lines)
    IN  IF res_idx = << >> THEN [exc |-> "IndexError", keff |-> << >>]
        ELSE LET toks == Split(lines[PickIdx(res_idx)])
             IN  IF Len(toks) < 3 THEN [exc |-> "IndexError", keff |-> << >>]
                 ELSE IF toks[3] \notin DOMAIN Numerals
                   THEN [exc |-> "ValueError", keff |-> << >>]
                 ELSE [exc |-> "none", keff |-> <<Numerals[toks[3]]>>]

(***************************************************************************)
(* cooled_cyl.py: the search                                               *)
(***************************************************************************)
Searches == {1, 2}

\* bounds=(5, 150) of find_radius
LowerBound == 5

UpperBound == 150

\* The bounded method of minimize_scalar evaluates first at
\* a + (3 - sqrt 5)/2 * (b - a), whatever the objective: 60.385072 here.
FirstRadius == 60385072

\* Later radii depend on the errors returned; they are drawn from these.
\* 42.000004 and 42.000001 differ and round to the same 5 decimals.
Radii == {r \in {42000004, 42000001, 94614928} :
             LowerBound * 1000000 <= r /\ r <= UpperBound * 1000000}

\* how many evaluations one search may start
MaxEvals == 2

\* round(radius, 5), in 1e-5 (no radius of the model is a decimal tie)
RoundR(r) == (r + 5) \div 10

\* basename of calc_keff_error, "{0}_{1}.i" of the rounded fraction and radius
\* (a fraction in hundredths is its own rounding to 5 decimals)
Basename(frac, r) == <<frac, RoundR(r)>>

\* the names of the artifacts: basename + suffix
File(base, suffix) == <<base[1], base[2], suffix>>

\* calc_keff_error without its os.remove of <base>r
RemoveListNoRuntpe == <<"s", "o", "">>

\* the os.remove calls of calc_keff_error, in order
RemoveList == <<"r", "s", "o", "">>

Suffixes == {"", "o", "r", "s"}

\* output files the solver may leave
LineHeader == <<"keff", Blank, "estimate", Blank, "1.02">>

LineLow == <<"final", Blank, "result", Blank, "0.98", Blank, "0.003">>

LineHigh == <<Blank, "final", Blank, "result", Blank, Blank, "1.02", Blank, "0.003">>

LineFatal == <<"fatal", Blank, "error">>

Outputs == { <<LineHeader, LineLow>>,
             <<LineLow, LineHeader, LineHigh>>,
             <<LineHeader, LineFatal>> }

NoExc == [type |-> "none", at |-> "none"]

Raise(s, type, at) ==
    /\ pc' = [pc EXCEPT ![s] = "failed"]
    /\ exc' = [exc EXCEPT ![s] = [type |-> type, at |-> at]]

Abs(x) == IF x < 0 THEN -x ELSE x

Base0(s) == Basename(cfg[s].frac, radius[s])

LogKey(s) == <<cfg[s].frac, cfg[s].coolant, cfg[s].fuel>>

\* frac_iterate up to the call of find_radius: the result log is opened for
\* appending (and so created), then rhos[coolant] is looked up
FracIterate(s) ==
    /\ pc[s] = "start"
    /\ resfiles' = IF LogKey(s) \in DOMAIN resfiles THEN resfiles
                   ELSE resfiles @@ (LogKey(s) :> << >>)
    /\ IF cfg[s].coolant \notin DOMAIN CoolRhos
       THEN Raise(s, "KeyError", "frac_iterate")
       ELSE pc' = [pc EXCEPT ![s] = "minimize"] /\ UNCHANGED exc
    /\ UNCHANGED <<cfg, radius, nev, keff, errs, rmi, fs, ndeck, nsolver, pureVars>>

\* minimize_scalar calls calc_keff_error with its next radius.  The minimizer
\* is taken as any run of radii within the bounds that starts at FirstRadius
\* and may stop after any evaluation.
Evaluate(s) ==
    /\ pc[s] = "minimize"
    /\ nev[s] < MaxEvals
    /\ \E r \in (IF nev[s] = 0 THEN {FirstRadius} ELSE Radii) :
          radius' = [radius EXCEPT ![s] = r]
    /\ nev' = [nev EXCEPT ![s] = @ + 1]
    /\ keff' = [keff EXCEPT ![s] = << >>]
    /\ pc' = [pc EXCEPT ![s] = "write_inp"]
    /\ UNCHANGED <<cfg, errs, exc, rmi, fs, resfiles, ndeck, nsolver, pureVars>>

\* minimize_scalar returns res, find_radius returns it, and frac_iterate
\* appends "round(res.x, 5) frac" to the result log
Converge(s) ==
    /\ pc[s] = "minimize"
    /\ nev[s] >= 1
    /\ \E x \in Radii \cup {FirstRadius} :
          resfiles' = [resfiles EXCEPT ![LogKey(s)] =
                          Append(@, <<RoundR(x), cfg[s].frac>>)]
    /\ pc' = [pc EXCEPT ![s] = "done"]
    /\ UNCHANGED <<cfg, radius, nev, keff, errs, exc, rmi, fs, ndeck, nsolver, pureVars>>

\* write_inp: homog_core, write_mat_string, write_input (the deck is written
\* last, and only when nothing before it raised)
WriteInp(s) ==
    /\ pc[s] = "write_inp"
    /\ LET c    == cfg[s]
           rc   == CoolRhos[c.coolant]
           rhos == IF (c.matr = None \/ c.matr \in DOMAIN MdRhos)
                      /\ c.fuel \in DOMAIN MdRhos
                   THEN SmearedRho(c.frac, c.fuel, c.matr, rc)
                   ELSE {1}    \* never read: the lookup raises first
       IN  \E rho \in rhos :
             LET e == HomogExc(c.frac, c.fuel, c.coolant, c.matr, rc, rho)
             IN  IF e # "none"
                 THEN /\ Raise(s, e, "write_inp")
                      /\ UNCHANGED <<fs, ndeck>>
                 ELSE /\ fs' = [n \in DOMAIN fs \cup {File(Base0(s), "")} |->
                                  IF n = File(Base0(s), "")
                                  THEN [owner |-> s, ev |-> nev[s],
                                        fuel |-> c.fuel, cool |-> c.coolant,
                                        rho |-> rho, lines |-> << >>]
                                  ELSE fs[n]]
                      /\ ndeck' = [ndeck EXCEPT ![s] = @ + 1]
                      /\ pc' = [pc EXCEPT ![s] = "call"]
                      /\ UNCHANGED exc
    /\ UNCHANGED <<cfg, radius, nev, keff, errs, rmi, resfiles, nsolver, pureVars>>

\* call(["mcnp6", "n= <basename> tasks 8"]): the solver runs on whatever deck
\* has the name and leaves <base>o, <base>r and <base>s
CallSolver(s) ==
    /\ pc[s] = "call"
    /\ \E out \in Outputs :
         LET made == {File(Base0(s), x) : x \in {"o", "r", "s"}}
             deck == File(Base0(s), "")
             src  == IF deck \in DOMAIN fs THEN fs[deck] 
                     ELSE [owner |-> 0, ev |-> 0, fuel |-> None, cool |-> None,
                           rho |-> 0, lines |-> << >>]
         IN  fs' = [n \in DOMAIN fs \cup made |->
                      IF n \in made
                      THEN [owner |-> s, ev |-> nev[s], fuel |-> src.fuel,
                            cool |-> src.cool, rho |-> src.rho,
                            lines |-> IF n[3] = "o" THEN out ELSE << >>]
                      ELSE fs[n]]
    /\ nsolver' = [nsolver EXCEPT ![s] = @ + 1]
    /\ pc' = [pc EXCEPT ![s] = "parse"]
    /\ UNCHANGED <<cfg, radius, nev, keff, errs, exc, rmi, resfiles, ndeck, pureVars>>

\* keff = parse_output(basename)
Parse(s) ==
    /\ pc[s] = "parse"
    /\ LET o == File(Base0(s), "o")
       IN  IF o \notin DOMAIN fs
           THEN Raise(s, "FileNotFoundError", "parse_output") /\ UNCHANGED <<keff, rmi>>
           ELSE LET p == ParseOutput(fs[o].lines)
                IN  IF p.exc # "none"
                    THEN Raise(s, p.exc, "parse_output") /\ UNCHANGED <<keff, rmi>>
                    ELSE /\ keff' = [keff EXCEPT ![s] = p.keff]
                         /\ rmi' = [rmi EXCEPT ![s] = 1]
                         /\ pc' = [pc EXCEPT ![s] = "remove"]
                         /\ UNCHANGED exc
    /\ UNCHANGED <<cfg, radius, nev, errs, fs, resfiles, ndeck, nsolver, pureVars>>

\* one os.remove of calc_keff_error
Remove(s) ==
    /\ pc[s] = "remove"
    /\ LET n == File(Base0(s), RemoveList[rmi[s]])
       IN  IF n \notin DOMAIN fs
           THEN Raise(s, "FileNotFoundError", "remove") /\ UNCHANGED <<fs, rmi>>
           ELSE /\ fs' = [m \in DOMAIN fs \ {n} |-> fs[m]]
                /\ IF rmi[s] < Len(RemoveList)
                   THEN rmi' = [rmi EXCEPT ![s] = @ + 1] /\ UNCHANGED pc
                   ELSE pc' = [pc EXCEPT ![s] = "return"] /\ UNCHANGED rmi
                /\ UNCHANGED exc
    /\ UNCHANGED <<cfg, radius, nev, keff, errs, resfiles, ndeck, nsolver, pureVars>>

\* return abs(keff - 1.0)
Return(s) ==
    /\ pc[s] = "return"
    /\ errs' = [errs EXCEPT ![s] = Append(@, Abs(keff[s][1] - 1000))]
    /\ pc' = [pc EXCEPT ![s] = "minimize"]
    /\ UNCHANGED <<cfg, radius, nev, keff, exc, rmi, fs, resfiles, ndeck, nsolver, pureVars>>

Next ==
    \E s \in Searches :
        \/ FracIterate(s)
        \/ Evaluate(s)
        \/ Converge(s)
        \/ WriteInp(s)
        \/ CallSolver(s)
        \/ Parse(s)
        \/ Remove(s)
        \/ Return(s)

\* identifiers a caller may pass: the table's, and one unknown to it
Idents == {"UO2", "UN", "CO2", "H2O", "W", "Xe"}

\* volume fractions in hundredths, inside and outside (0, 1)
Fracs == {-20, 0, 30, 50, 100, 150}

Configs == [frac : Fracs, coolant : Idents, fuel : Idents, matr : Idents \cup {None}]

Idle == [frac |-> 0, coolant |-> None, fuel |-> None, matr |-> None]

InitSearch(active, cfgs) ==
    /\ cfg \in [Searches -> cfgs \cup {Idle}]
    /\ \A s \in Searches : (cfg[s] = Idle) <=> (s \notin active)
    /\ pc = [s \in Searches |-> IF s \in active THEN "start" ELSE "off"]
    /\ radius = [s \in Searches |-> 0]
    /\ nev = [s \in Searches |-> 0]
    /\ keff = [s \in Searches |-> << >>]
    /\ errs = [s \in Searches |-> << >>]
    /\ exc = [s \in Searches |-> NoExc]
    /\ rmi = [s \in Searches |-> 1]
    /\ fs = << >>
    /\ resfiles = << >>
    /\ ndeck = [s \in Searches |-> 0]
    /\ nsolver = [s \in Searches |-> 0]

\* no function is applied on its own
PureOff == arg = << >> /\ ret = << >> /\ step = "off"

\* one frac_iterate call, any arguments
Init == InitSearch({1}, Configs) /\ PureOff

Spec == Init /\ [][Next]_vars

(***************************************************************************)
(* Properties of one search (Spec)                                         *)
(***************************************************************************)
Active(s) == pc[s] # "off"

ArtifactsOf(s) == {File(Base0(s), x) : x \in Suffixes}

\* the evaluation of radius[s] has ended: it returned, or parse_output
\* raised for want of a result line
EvalEnded(s) ==
    /\ nev[s] >= 1
    /\ \/ pc[s] \in {"minimize", "done"}
       \/ pc[s] = "failed" /\ exc[s].at = "parse_output" /\ exc[s].type = "IndexError"

\* C1: after an evaluation ends, by a return or by the failure of
\* parse_output on an output with no result line, none of the four artifacts
\* of its radius exists (stated for searches of a fraction inside (0, 1)).
C1_ArtifactsGoneAfterEvaluation ==
    \A s \in Searches :
        (EvalEnded(s) /\ 0 < cfg[s].frac /\ cfg[s].frac < 100)
            => ArtifactsOf(s) \cap DOMAIN fs = {}

\* C5: a search whose volume fraction lies outside (0, 1) writes no deck and
\* spawns no solver.
C5_OutOfDomainWritesNothing ==
    \A s \in Searches :
        (Active(s) /\ ~(0 < cfg[s].frac /\ cfg[s].frac < 100))
            => ndeck[s] = 0 /\ nsolver[s] = 0

ParseFailed(s) == pc[s] = "failed" /\ exc[s].at = "parse_output"

C2_State ==
    \A s \in Searches :
        ParseFailed(s) =>
            /\ keff[s] = << >>
            /\ Len(errs[s]) = nev[s] - 1
            /\ resfiles[LogKey(s)] = << >>

C2_Step ==
    \A s \in Searches :
        /\ ( /\ pc[s] = "parse"
             /\ File(Base0(s), "o") \in DOMAIN fs
             /\ \A i \in 1..Len(fs[File(Base0(s), "o")].lines) :
                    ~HasMarker(fs[File(Base0(s), "o")].lines[i])
             /\ pc'[s] # "parse" )
           => ParseFailed(s)'
        /\ ParseFailed(s) =>
             /\ ParseFailed(s)'
             /\ nev'[s] = nev[s] /\ nsolver'[s] = nsolver[s]
             /\ errs'[s] = errs[s] /\ resfiles' = resfiles

\* C2: an output with no 'final result' line makes parse_output fail; the
\* failure ends the evaluation and the search: no keff is bound, no error is
\* returned to the minimizer, no further evaluation starts and no record is
\* appended to the result log.
C2_ParseFailureEndsSearch == [](C2_State) /\ [][C2_Step]_vars

C2_Witness ==
    \E s \in Searches :
        /\ ParseFailed(s) /\ nev[s] = 1 /\ nev[s] < MaxEvals
        /\ LogKey(s) \in DOMAIN resfiles

\* what the material table can serve: a fuel with a density, a composition
\* and a molar mass; a coolant with a density and a composition; no matrix, or
\* one with a density and a composition
Usable(c) ==
    /\ c.fuel \in {"UO2", "UN"}
    /\ c.coolant \in {"CO2", "H2O"}
    /\ c.matr \in {None, "UO2", "UN", "W"}

\* C9: with an identifier the material table cannot serve, frac_iterate
\* fails before any deck is written and before the solver is invoked: it is
\* still on its way to the first homog_core, or it has failed.
C9_BadIdentifierFailsFast ==
    \A s \in Searches :
        (Active(s) /\ ~Usable(cfg[s])) =>
            /\ ndeck[s] = 0 /\ nsolver[s] = 0 /\ fs = << >>
            /\ \/ pc[s] = "start"
               \/ pc[s] = "minimize" /\ nev[s] = 0
               \/ pc[s] = "write_inp" /\ nev[s] = 1
               \/ pc[s] = "failed"

C9_Witness ==
    \E s \in Searches :
        /\ cfg[s].fuel = "W" /\ cfg[s].coolant = "CO2" /\ cfg[s].matr = None
        /\ pc[s] = "failed" /\ exc[s].type = "UnboundLocalError"

\* the artifacts an evaluation holds when rmi is the next os.remove
Remaining(s) ==
    {File(Base0(s), RemoveList[i]) : i \in rmi[s]..Len(RemoveList)}

\* C10: evaluations of one search are sequential and run write deck, invoke
\* solver, extract keff, delete artifacts in that order: right after a deck
\* is written it is the only artifact on storage, every artifact on storage
\* belongs to the evaluation under way, keff is bound before anything is
\* deleted, and once an evaluation has returned nothing of it is left but
\* the error handed to the minimizer.
C10_SequentialEvaluations ==
    \A s \in {t \in Searches : Active(t)} :
        /\ \A n \in DOMAIN fs :
              fs[n].owner = s /\ fs[n].ev = nev[s] /\ n \in ArtifactsOf(s)
        /\ pc[s] \in {"start", "minimize", "write_inp", "return", "done"}
              => DOMAIN fs = {}
        /\ pc[s] \in {"minimize", "done"} => Len(errs[s]) = nev[s]
        /\ pc[s] = "call" => DOMAIN fs = {File(Base0(s), "")} /\ keff[s] = << >>
        /\ pc[s] = "parse" => DOMAIN fs = ArtifactsOf(s) /\ keff[s] = << >>
        /\ pc[s] = "remove" => DOMAIN fs = Remaining(s) /\ keff[s] # << >>
        /\ ndeck[s] - 1 <= nsolver[s] /\ nsolver[s] <= ndeck[s] /\ ndeck[s] <= nev[s]

C10_Witness ==
    \E s \in Searches :
        /\ nev[s] = 2 /\ pc[s] = "call" /\ Len(errs[s]) = 1
        /\ DOMAIN fs = {File(Base0(s), "")}

(***************************************************************************)
(* Two searches of distinct configurations in one working directory        *)
(***************************************************************************)
ConcConfigs == [frac : {30, 50}, coolant : {"CO2"}, fuel : {"UO2", "UN"}, matr : {None}]

InitConc == InitSearch(Searches, ConcConfigs) /\ cfg[1] # cfg[2] /\ PureOff

SpecConc == InitConc /\ [][Next]_vars

\* the evaluation of s holds artifacts
Live(s) == pc[s] \in {"call", "parse", "remove"}

\* C7: two live evaluations of concurrent searches never use the same
\* artifact names, and every artifact an evaluation finds under its names is
\* one it created itself, from its own deck.
C7_NoSharedArtifacts ==
    \A s \in Searches :
        Live(s) =>
            /\ \A t \in Searches \ {s} : Live(t) => Base0(s) # Base0(t)
            /\ \A n \in ArtifactsOf(s) \cap DOMAIN fs :
                  fs[n].owner = s /\ fs[n].fuel = cfg[s].fuel

(***************************************************************************)
(* parse_output applied to an output file                                  *)
(***************************************************************************)
LineShort == <<"final", Blank, "result">>

LineShifted == <<"the", Blank, "final", Blank, "results", Blank, "1.00">>

LineApart == <<"final", Blank, Blank, "result", Blank, "1.00">>

LineSemi == <<"semifinal", Blank, "result", Blank, "1.00", Blank, "0.003">>

LineSet == {LineHeader, LineLow, LineHigh, LineFatal, LineShort, LineShifted,
            LineApart, LineSemi}

\* the longest output file, in lines
MaxLines == 3

OutputFiles == UNION {[1..n -> LineSet] : n \in 0..MaxLines}

NoSearch == InitSearch({}, {})

InitParse == NoSearch /\ arg \in OutputFiles /\ ret = << >> /\ step = "in"

DoParse ==
    /\ step = "in"
    /\ ret' = ParseOutput(arg)
    /\ step' = "out"
    /\ UNCHANGED <<arg, searchVars>>

SpecParse == InitParse /\ [][DoParse]_vars

MarkerLines(lines) == {i \in 1..Len(lines) : HasMarker(lines[i])}

LastMarker(lines) ==
    CHOOSE i \in MarkerLines(lines) : \A j \in MarkerLines(lines) : j <= i

\* the third token of a line as a number: << >> when the line has no third
\* token or it is no numeral
ThirdValue(line) ==
    LET toks == Split(line)
    IN  IF Len(toks) >= 3 /\ toks[3] \in DOMAIN Numerals
        THEN <<Numerals[toks[3]]>> ELSE << >>

\* C3: on an output with one or more 'final result' lines, parse_output
\* returns the value of the third token of the last of them, whatever the
\* earlier ones carry; when that line has no numeric third token it raises
\* and returns nothing (it never falls back on an earlier line).
C3_LastResultLineWins ==
    (step = "out" /\ MarkerLines(arg) # {}) =>
        LET v == ThirdValue(arg[LastMarker(arg)])
        IN  /\ ret.keff = v
            /\ (ret.exc = "none") <=> (v # << >>)

C3_Witness ==
    /\ step = "out"
    /\ \E i, j \in MarkerLines(arg) :
          /\ i < j /\ j = LastMarker(arg)
          /\ ThirdValue(arg[i]) # << >> /\ ThirdValue(arg[j]) # << >>
          /\ ThirdValue(arg[i]) # ThirdValue(arg[j])
          /\ ret.keff = ThirdValue(arg[j])

(***************************************************************************)
(* homog_core applied to a fraction in (0, 1), no matrix                   *)
(***************************************************************************)
HomogInputs == [vfrac : 1..99, fuel : {"UO2", "UN"}, cool : {"CO2", "H2O"}]

InitHomog == NoSearch /\ arg \in HomogInputs /\ ret = << >> /\ step = "in"

DoHomog ==
    /\ step = "in"
    /\ \E rho \in SmearedRho(arg.vfrac, arg.fuel, None, CoolRhos[arg.cool]) :
          ret' = [rho  |-> rho,
                  comp |-> HomogCore(arg.vfrac, arg.fuel, arg.cool, None, Enrich,
                                     CoolRhos[arg.cool])]
    /\ step' = "out"
    /\ UNCHANGED <<arg, searchVars>>

SpecHomog == InitHomog /\ [][DoHomog]_vars

RECURSIVE BigSum(_, _)
BigSum(comp, S) ==
    IF S = {} THEN << >>
    ELSE LET i == CHOOSE x \in S : TRUE
         IN  BigAdd(comp[i], BigSum(comp, S \ {i}))

\* 10^13: a density in 1e-5 as a numerator in 1e-18
Ten13 == <<0, 0, 0, 10>>

\* | sum of comp / rho - 1 | <= 1e-6
SumsToOne(comp, rho) ==
    LET n == BigMul(BigSum(comp, DOMAIN comp), BigOf(1000000))
        d == BigMul(BigOf(rho), Ten13)
    IN  /\ BigLeq(n, BigMul(d, BigOf(1000001)))
        /\ BigLeq(BigMul(d, BigOf(999999)), n)

\* C4: the mass fractions homog_core returns sum to 1.0 within 1e-6.
C4_MassFractionsSumToOne ==
    step = "out" => SumsToOne(ret.comp, ret.rho)

(***************************************************************************)
(* write_mat_string applied to a composition                               *)
(***************************************************************************)
MatIsotopes == {1001, 8016, 92235, 92238}

\* mass fractions: zero and two others
MatValues == {<< >>, <<3>>, <<7>>}

Compositions == UNION {[S -> MatValues] : S \in SUBSET MatIsotopes}

InitMat == NoSearch /\ arg \in Compositions /\ ret = << >> /\ step = "in"

DoMat ==
    /\ step = "in"
    /\ ret' = WriteMatString(arg)
    /\ step' = "out"
    /\ UNCHANGED <<arg, searchVars>>

SpecMat == InitMat /\ [][DoMat]_vars

RECURSIVE JoinEntries(_, _)
\* the entries of the isotopes of keys, a line break between consecutive ones
JoinEntries(comp, keys) ==
    IF keys = << >> THEN << >>
    ELSE IF Len(keys) = 1 THEN <<Entry(keys[1], comp[keys[1]])>>
    ELSE <<Entry(keys[1], comp[keys[1]]), NL>> \o JoinEntries(comp, Tail(keys))

\* C6: the material block is the card line followed by exactly the isotopes
\* of non-zero mass fraction, ascending, a line break between consecutive
\* entries and none after the last written one.
C6_MaterialBlock ==
    step = "out" =>
        ret = <<Card, NL>>
              \o JoinEntries(arg, SortedSeq({i \in DOMAIN arg : arg[i] # << >>}))

====
